---- MODULE Spec2Model ----
(***************************************************************************)
(* Model of the Groq TTS service (src/ai.py): the voice/language selector, *)
(* the two-tier synthesizer and the temporary-file lifecycle of the two    *)
(* /tts handlers.                                                          *)
(*                                                                         *)
(* Python values are represented as follows.                               *)
(*   Optional[x]   None is <<>>, a present value x is <<x>>.               *)
(*   lang strings  sequences of one-character strings, so that lower()     *)
(*                 is computed character by character.                     *)
(*   voice, model  TLA+ strings (only compared and tested for emptiness).  *)
(*   bytes         sequences of numbers.                                   *)
(***************************************************************************)
EXTENDS Integers, Sequences, FiniteSets, TLC

(***************************************************************************)
(* Bounds of the model.                                                    *)
(***************************************************************************)
\* number of /tts requests of a behaviour of Spec
NumReq == 2
\* longest lang string drawn as an input of the selector
MaxLangLen == 2
\* longest provider payload, in bytes
MaxPayload == 2
\* number of consecutive _cleanup_file calls on one path
MaxCleanups == 2

None == <<>>
Some(x) == <<x>>

(***************************************************************************)
(* Voice catalog, src/ai.py:20-35.                                         *)
(***************************************************************************)
ENGLISH_VOICES ==
    << "Arista-PlayAI", "Atlas-PlayAI", "Basil-PlayAI", "Briggs-PlayAI",
       "Calum-PlayAI", "Celeste-PlayAI", "Cheyenne-PlayAI", "Chip-PlayAI",
       "Cillian-PlayAI", "Deedee-PlayAI", "Fritz-PlayAI", "Gail-PlayAI",
       "Indigo-PlayAI", "Mamaw-PlayAI", "Mason-PlayAI", "Mikail-PlayAI",
       "Mitch-PlayAI", "Quinn-PlayAI", "Thunder-PlayAI" >>

ARABIC_VOICES ==
    << "Ahmad-PlayAI", "Amira-PlayAI", "Khalid-PlayAI", "Nasser-PlayAI" >>

DEFAULT_ENGLISH_VOICE == "Arista-PlayAI"
DEFAULT_ARABIC_VOICE == "Ahmad-PlayAI"
ENGLISH_MODEL == "playai-tts"
ARABIC_MODEL == "playai-tts-arabic"

Range(s) == { s[i] : i \in 1..Len(s) }

(***************************************************************************)
(* str.lower() on the characters the inputs are drawn from.                *)
(***************************************************************************)
LowerChar(c) ==
    CASE c = "E" -> "e"
      [] c = "N" -> "n"
      [] c = "A" -> "a"
      [] c = "R" -> "r"
      [] OTHER -> c

Lower(s) == [ i \in 1..Len(s) |-> LowerChar(s[i]) ]

EN == << "e", "n" >>
AR == << "a", "r" >>

\* Python truthiness of an Optional[str]: None and the empty string are falsy.
\* (the empty lang is the empty sequence, the empty voice is "")
TruthyLang(opt) == opt # None /\ opt[1] # << >>

TruthyVoice(opt) == opt # None /\ opt[1] # ""

(***************************************************************************)
(* HTTPException(status_code, detail); the detail of the two voice errors  *)
(* embeds the voice list of the language.                                  *)
(***************************************************************************)
HTTPException(code, msg, list) ==
    [ ok |-> FALSE, status |-> code, detail |-> msg, listed |-> list ]

Resolved(m, v) == [ ok |-> TRUE, model |-> m, voice |-> v ]

\* variant: the lower() of src/ai.py:45 is left out
NormLang_NoLower(lang) == IF TruthyLang(lang) THEN lang[1] ELSE EN

\* lang = (lang or "en").lower(), src/ai.py:45
NormLang(lang) == Lower(IF TruthyLang(lang) THEN lang[1] ELSE EN)

\* variant: the requested voice is ignored
SelectVoice_AlwaysDefault(voice, default) == default

\* selected_voice = voice if voice else DEFAULT, src/ai.py:51 and :56
SelectVoice(voice, default) == IF TruthyVoice(voice) THEN voice[1] ELSE default

\* variant: the selected voice is not checked against the language's list
_validate_and_select_model_voice_Unchecked(lang, voice) ==
    LET l == NormLang(lang) IN
    IF l \notin { EN, AR }
    THEN HTTPException(400, "lang must be 'en' or 'ar'", << >>)
    ELSE IF l = AR
    THEN Resolved(ARABIC_MODEL, SelectVoice(voice, DEFAULT_ARABIC_VOICE))
    ELSE Resolved(ENGLISH_MODEL, SelectVoice(voice, DEFAULT_ENGLISH_VOICE))

\* src/ai.py:44-60
_validate_and_select_model_voice(lang, voice) ==
    LET l == NormLang(lang) IN
    IF l \notin { EN, AR }
    THEN HTTPException(400, "lang must be 'en' or 'ar'", << >>)
    ELSE IF l = AR
    THEN LET selected_voice == SelectVoice(voice, DEFAULT_ARABIC_VOICE) IN
         IF selected_voice \notin Range(ARABIC_VOICES)
         THEN HTTPException(400, "Arabic voice not found. Use one of: ", ARABIC_VOICES)
         ELSE Resolved(ARABIC_MODEL, selected_voice)
    ELSE LET selected_voice == SelectVoice(voice, DEFAULT_ENGLISH_VOICE) IN
         IF selected_voice \notin Range(ENGLISH_VOICES)
         THEN HTTPException(400, "English voice not found. Use one of: ", ENGLISH_VOICES)
         ELSE Resolved(ENGLISH_MODEL, selected_voice)

(***************************************************************************)
(* Inputs of the selector.                                                 *)
(***************************************************************************)
LangChars == { "e", "n", "a", "r", "E", "N", "A", "R", "f" }

SeqsUpTo(S, n) == UNION { [ 1..k -> S ] : k \in 0..n }

\* None, the empty string and every string over LangChars up to MaxLangLen
LangInputs == { None } \cup { Some(s) : s \in SeqsUpTo(LangChars, MaxLangLen) }

\* None, the empty string, every catalog voice and a voice of no catalog
VoiceInputs ==
    { None, Some(""), Some("Nobody-PlayAI") }
        \cup { Some(v) : v \in Range(ENGLISH_VOICES) \cup Range(ARABIC_VOICES) }

(***************************************************************************)
(* The filesystem: the content of each temporary path, None when the path  *)
(* does not exist.  tempfile.NamedTemporaryFile creates a file at a path   *)
(* that did not exist; one path per request is enough, so the paths drawn  *)
(* are 1..NumReq.                                                          *)
(***************************************************************************)
Paths == 1..NumReq

NoPath == 0

\* the temporary files of the handlers belong to the process: no deletion
\* of theirs fails
NoLocks == { }

\* os.remove(path), src/ai.py:65: FileNotFoundError when the path is absent,
\* PermissionError (the file stays) when the path is in locked
os_remove(fs, locked, path) ==
    IF fs[path] = None \/ path \in locked
    THEN [ raised |-> TRUE, fs |-> fs ]
    ELSE [ raised |-> FALSE, fs |-> [ fs EXCEPT ![path] = None ] ]

\* variant: no try/except around os.remove
_cleanup_file_NoExcept(fs, locked, path) == os_remove(fs, locked, path)

\* src/ai.py:63-67: the exception of os.remove is swallowed
_cleanup_file(fs, locked, path) ==
    [ raised |-> FALSE, fs |-> os_remove(fs, locked, path).fs ]

\* variant: the destination is opened in append mode
WriteBytes_Append(old, data) == old \o data

\* variant: the file is opened without truncation, data overwrites its start
WriteBytes_NoTruncate(old, data) ==
    data \o (IF Len(old) > Len(data) THEN SubSeq(old, Len(data) + 1, Len(old)) ELSE << >>)

\* open(out_path, "wb") followed by f.write(data), src/ai.py:111-112:
\* the file is truncated, then holds data
WriteBytes(old, data) == data

\* response.stream_to_file(file=out_path), src/ai.py:84: the destination is
\* opened for writing (truncated) and the first n bytes of the payload are
\* written chunk by chunk before the call returns (n = Len) or raises (n <= Len)
RECURSIVE AppendChunks(_, _, _)
AppendChunks(content, data, n) ==
    IF n = 0 \/ data = << >>
    THEN content
    ELSE AppendChunks(Append(content, Head(data)), Tail(data), n - 1)

StreamToFileContent(old, payload, n) == AppendChunks(<< >>, payload, n)

(***************************************************************************)
(* The provider.  A payload is a byte sequence; a buffered response        *)
(* exposes it through the attributes read, content and raw: each is None   *)
(* when the attribute is absent; raw holds the raw object, itself None     *)
(* (NoRead) when resp.raw exists but has no read attribute.                *)
(***************************************************************************)
Bytes == { 0, 1 }

NoRead == Some(None)

NoResp == [ read |-> None, content |-> None, raw |-> None, returned |-> FALSE ]

Response(rd, ct, rw) == [ read |-> rd, content |-> ct, raw |-> rw, returned |-> TRUE ]

\* every payload up to MaxPayload bytes; every combination of attributes
RichPayloads == SeqsUpTo(Bytes, MaxPayload)

RichResps ==
    { Response(rd, ct, rw) :
        rd \in { None } \cup { Some(p) : p \in RichPayloads },
        ct \in { None } \cup { Some(p) : p \in RichPayloads },
        rw \in { None, NoRead } \cup { Some(Some(p)) : p \in RichPayloads } }

\* the provider of the handler specification: one payload, exposed through
\* at most one attribute
LeanPayloads == { << 1 >> }

LeanResps ==
    { Response(Some(<< 1 >>), None, None), Response(None, Some(<< 1 >>), None),
      Response(None, None, Some(Some(<< 1 >>))), Response(None, None, NoRead),
      Response(None, None, None) }

\* the response exposes the payload through one of the three shapes
HasShape(resp) ==
    \/ resp.read # None
    \/ resp.content # None
    \/ resp.raw # None /\ resp.raw[1] # None

\* variant: only the read attribute is probed
ExtractData_ReadOnly(resp) == IF resp.read # None THEN resp.read ELSE None

\* variant: content is probed before read
ExtractData_ContentFirst(resp) ==
    IF resp.content # None THEN resp.content
    ELSE IF resp.read # None THEN resp.read
    ELSE IF resp.raw # None /\ resp.raw[1] # None THEN resp.raw[1]
    ELSE None

\* src/ai.py:102-109: the attribute probe of the buffered response;
\* None stands for the RuntimeError of the else branch
ExtractData(resp) ==
    IF resp.read # None THEN resp.read
    ELSE IF resp.content # None THEN resp.content
    ELSE IF resp.raw # None /\ resp.raw[1] # None THEN resp.raw[1]
    ELSE None

(***************************************************************************)
(* Exceptions in flight inside _synthesize_to_wav.                         *)
(***************************************************************************)
NoExc == [ type |-> "", tier |-> "" ]

Exc(t, tr) == [ type |-> t, tier |-> tr ]

\* what a provider call or a transfer can raise besides AttributeError
ProviderErrors == { "APIError" }

NoTarget == [ ok |-> FALSE, status |-> 0, detail |-> "", listed |-> << >> ]

NoDetail == [ msg |-> "", cause |-> NoExc, listed |-> << >> ]

(***************************************************************************)
(* State.                                                                  *)
(*   sel    the selector call of SpecResolve                               *)
(*   req    per request: position, inputs, locals of the handler and of    *)
(*          _synthesize_to_wav, the response, the scheduled tasks and the  *)
(*          history of the request: what the streaming tier raised         *)
(*          (streamExc), whether the buffered response exposed a payload   *)
(*          (exposed), the provider calls made (calls) and the log of      *)
(*          what the request did (ops)                                     *)
(*   files  the temporary directory                                        *)
(*   cl     the _cleanup_file calls of SpecCleanup: a directory, the paths  *)
(*          whose deletion fails, the path cleaned, the calls made, whether *)
(*          a call raised and the directory after the first call           *)
(***************************************************************************)
VARIABLES sel, req, files, cl

vars == << sel, req, files, cl >>

Pending == [ ok |-> FALSE, status |-> 0, detail |-> "", listed |-> << >> ]

NoSel == [ lang |-> None, voice |-> None, out |-> Pending ]

Requests == DOMAIN req

IdleReq ==
    [ pc |-> "idle", handler |-> "", bg |-> FALSE, lang |-> None, voice |-> None,
      target |-> NoTarget, path |-> NoPath, payload |-> None,
      session |-> "none", streamRes |-> "none", streamExc |-> "",
      bufRes |-> "none", exposed |-> FALSE,
      resp |-> NoResp, calls |-> << >>, exc |-> NoExc,
      status |-> 0, detail |-> NoDetail, media |-> "", tasks |-> << >>,
      ops |-> << >>, sent |-> None ]

NoFiles == [ p \in Paths |-> None ]

NoCl == [ fs |-> NoFiles, locked |-> { }, path |-> NoPath, n |-> 0,
          raised |-> FALSE, once |-> NoFiles ]

(***************************************************************************)
(* The selector alone: one call on drawn inputs.                           *)
(***************************************************************************)
InitResolve ==
    /\ \E l \in LangInputs, v \in VoiceInputs :
           sel = [ lang |-> l, voice |-> v, out |-> Pending ]
    /\ req = << >>
    /\ files = NoFiles
    /\ cl = NoCl

Resolve ==
    /\ sel.out = Pending
    /\ sel' = [ sel EXCEPT !.out = _validate_and_select_model_voice(sel.lang, sel.voice) ]
    /\ UNCHANGED << req, files, cl >>

SpecResolve == InitResolve /\ [][Resolve]_vars

(***************************************************************************)
(* The handlers.  A request moves through                                  *)
(*   idle -> (400: done) | validated -> allocated -> _synthesize_to_wav    *)
(*        -> synth_raised -> done (500)                                    *)
(*        -> synth_ok -> responding -> sent -> done                        *)
(***************************************************************************)
Set(r, rec) == req' = [ req EXCEPT ![r] = rec ]

\* the inputs of the requests of Spec: both languages in either case, an
\* unsupported language, no voice and a voice of the Arabic catalog only
HandlerLangs == { Some(<< "E", "N" >>), Some(AR), Some(<< "f", "r" >>) }

HandlerVoices == { None, Some("Khalid-PlayAI") }

\* variant: the temporary file is allocated before the selector is called
Enter_AllocateFirst(r, h, b, l, v) ==
    LET out == _validate_and_select_model_voice(l, v)
        in == [ req[r] EXCEPT !.handler = h, !.bg = b, !.lang = l, !.voice = v ] IN
    /\ req[r].pc = "idle"
    /\ \E p \in Paths :
        /\ files[p] = None
        /\ files' = [ files EXCEPT ![p] = Some(<< >>) ]
        /\ IF out.ok
           THEN Set(r, [ in EXCEPT !.pc = "allocated", !.target = out, !.path = p,
                                   !.ops = Append(@, "allocate") ])
           ELSE Set(r, [ in EXCEPT !.pc = "done", !.status = out.status, !.path = p,
                                   !.detail = [ msg |-> out.detail, cause |-> NoExc,
                                                listed |-> out.listed ],
                                   !.ops = @ \o << "allocate", "raise400" >> ])
    /\ UNCHANGED << sel, cl >>

\* src/ai.py:129 and :149: the call of the selector that opens both handlers;
\* its HTTPException leaves the handler as the response
Enter(r, h, b, l, v) ==
    LET out == _validate_and_select_model_voice(l, v)
        in == [ req[r] EXCEPT !.handler = h, !.bg = b, !.lang = l, !.voice = v ] IN
    /\ req[r].pc = "idle"
    /\ IF out.ok
       THEN Set(r, [ in EXCEPT !.pc = "validated", !.target = out ])
       ELSE Set(r, [ in EXCEPT !.pc = "done", !.status = out.status,
                               !.detail = [ msg |-> out.detail, cause |-> NoExc,
                                            listed |-> out.listed ],
                               !.ops = Append(@, "raise400") ])
    /\ UNCHANGED << sel, files, cl >>

\* GET /tts/, src/ai.py:127-129; background_tasks defaults to None
tts_get(r) ==
    \E l \in HandlerLangs, v \in HandlerVoices, b \in BOOLEAN :
        Enter(r, "get", b, l, v)

\* POST /tts/, src/ai.py:147-149; background_tasks is a required argument
tts_post(r) ==
    \E l \in HandlerLangs, v \in HandlerVoices :
        Enter(r, "post", TRUE, l, v)

\* variant: the streaming call is started before the file is allocated
Allocate_AfterCall(r) ==
    /\ req[r].pc = "validated"
    /\ \E p \in Paths :
        /\ files[p] = None
        /\ files' = [ files EXCEPT ![p] = Some(<< >>) ]
        /\ Set(r, [ req[r] EXCEPT !.pc = "streaming", !.path = p, !.session = "open",
                                  !.payload = Some(<< 1 >>),
                                  !.calls = << [ tier |-> "stream",
                                                 model |-> req[r].target.model,
                                                 voice |-> req[r].target.voice ] >>,
                                  !.ops = @ \o << "stream_call", "allocate" >> ])
    /\ UNCHANGED << sel, cl >>

\* variant: the name is not checked against the files that exist
Allocate_NotUnique(r) ==
    /\ req[r].pc = "validated"
    /\ \E p \in Paths :
        /\ files' = [ files EXCEPT ![p] = Some(<< >>) ]
        /\ Set(r, [ req[r] EXCEPT !.pc = "allocated", !.path = p,
                                  !.ops = Append(@, "allocate") ])
    /\ UNCHANGED << sel, cl >>

\* src/ai.py:131-133 and :151-153: an empty file at a path that did not exist
Allocate(r) ==
    /\ req[r].pc = "validated"
    /\ \E p \in Paths :
        /\ files[p] = None
        /\ files' = [ files EXCEPT ![p] = Some(<< >>) ]
        /\ Set(r, [ req[r] EXCEPT !.pc = "allocated", !.path = p,
                                  !.ops = Append(@, "allocate") ])
    /\ UNCHANGED << sel, cl >>

(***************************************************************************)
(* _synthesize_to_wav, src/ai.py:70-115.                                   *)
(***************************************************************************)
Call(r, tier) == [ tier |-> tier, model |-> req[r].target.model, voice |-> req[r].target.voice ]

\* the streaming tier raised e (kept as the history of the request)
Raised(rec, e) == [ rec EXCEPT !.streamRes = "raised", !.streamExc = e ]

\* variant: every exception of the streaming tier falls through
StreamExcept_CatchAll(rec, e) == [ rec EXCEPT !.pc = "fallback" ]

\* except AttributeError: pass  /  except Exception: raise, src/ai.py:86-91
StreamExcept(rec, e) ==
    IF e = "AttributeError"
    THEN [ rec EXCEPT !.pc = "fallback" ]
    ELSE [ rec EXCEPT !.pc = "synth_raised", !.exc = Exc(e, "stream") ]

\* src/ai.py:77-82: client.audio.speech.with_streaming_response.create(...)
\* and entering the with block.  The client may lack the streaming helper
\* (AttributeError before any call), the call may fail, or a session opens.
StreamCreate(r, payloads) ==
    /\ req[r].pc = "allocated"
    /\ \/ Set(r, StreamExcept(Raised(req[r], "AttributeError"), "AttributeError"))
       \/ \E e \in ProviderErrors :
            Set(r, StreamExcept(Raised([ req[r] EXCEPT
                                            !.calls = Append(@, Call(r, "stream")),
                                            !.ops = Append(@, "stream_call") ], e), e))
       \/ \E p \in payloads :
            Set(r, [ req[r] EXCEPT !.pc = "streaming", !.session = "open",
                                   !.payload = Some(p),
                                   !.calls = Append(@, Call(r, "stream")),
                                   !.ops = Append(@, "stream_call") ])
    /\ UNCHANGED << sel, files, cl >>

\* variant: the session is used without the with statement
ExitWith_Leak(rec) == rec

\* leaving the with block of src/ai.py:77-85, by return or by exception,
\* closes the streaming session
ExitWith(rec) == [ rec EXCEPT !.session = "closed" ]

\* src/ai.py:84-85: response.stream_to_file(file=out_path); return.
\* The session may lack stream_to_file (AttributeError, nothing written);
\* the transfer may complete, or raise after n bytes reached the file.
\* Leaving the with block closes the session on every path.
StreamToFile(r) ==
    LET rec == ExitWith(req[r])
        p == req[r].payload[1]
        path == req[r].path IN
    /\ req[r].pc = "streaming"
    /\ \/ /\ Set(r, StreamExcept(Raised(rec, "AttributeError"), "AttributeError"))
          /\ UNCHANGED files
       \/ /\ files' = [ files EXCEPT ![path] =
                            Some(StreamToFileContent(@[1], p, Len(p))) ]
          /\ Set(r, [ rec EXCEPT !.pc = "synth_ok", !.streamRes = "ok",
                                 !.ops = Append(@, "stream_write") ])
       \/ \E n \in 0..Len(p), e \in ProviderErrors \cup { "AttributeError" } :
          /\ files' = [ files EXCEPT ![path] = Some(StreamToFileContent(@[1], p, n)) ]
          /\ Set(r, StreamExcept(Raised([ rec EXCEPT !.ops = Append(@, "stream_write") ],
                                         e), e))
    /\ UNCHANGED << sel, cl >>

\* src/ai.py:94-115: the buffered call, the attribute probe and the write.
\* Every exception of this tier is re-raised.
BufferedFallback(r, resps) ==
    LET rec == [ req[r] EXCEPT !.calls = Append(@, Call(r, "buffered")),
                               !.ops = Append(@, "buffered_call") ]
        path == req[r].path IN
    /\ req[r].pc = "fallback"
    /\ \/ \E e \in ProviderErrors \cup { "AttributeError" } :
          /\ Set(r, [ rec EXCEPT !.pc = "synth_raised", !.bufRes = "error",
                                 !.exc = Exc(e, "buffered") ])
          /\ UNCHANGED files
       \/ \E resp \in resps :
          LET data == ExtractData(resp) IN
          IF data = None
          THEN /\ Set(r, [ rec EXCEPT !.pc = "synth_raised", !.bufRes = "noshape",
                                      !.resp = resp, !.exposed = HasShape(resp),
                                      !.exc = Exc("RuntimeError", "buffered") ])
               /\ UNCHANGED files
          ELSE /\ files' = [ files EXCEPT ![path] = Some(WriteBytes(@[1], data[1])) ]
               /\ Set(r, [ rec EXCEPT !.pc = "synth_ok", !.bufRes = "ok",
                                      !.resp = resp, !.exposed = HasShape(resp),
                                      !.ops = Append(@, "buffered_write") ])
    /\ UNCHANGED << sel, cl >>

(***************************************************************************)
(* After _synthesize_to_wav: its locals are gone, the handler goes on.     *)
(***************************************************************************)
Returned(rec) == [ rec EXCEPT !.resp = NoResp, !.payload = None ]

\* variant: the handler calls _synthesize_to_wav again after a failure
HandlerExcept_Retry(r) ==
    /\ req[r].pc = "synth_raised"
    /\ Set(r, [ Returned(req[r]) EXCEPT !.pc = "allocated", !.session = "none" ])
    /\ UNCHANGED << sel, files, cl >>

\* variant: the exception is swallowed and the file is served
HandlerExcept_Swallow(r) ==
    /\ req[r].pc = "synth_raised"
    /\ Set(r, [ Returned(req[r]) EXCEPT
                    !.pc = "responding", !.status = 200, !.media = "audio/wav",
                    !.ops = Append(@, "return200") ])
    /\ UNCHANGED << sel, files, cl >>

\* src/ai.py:137-139 and :157-159: except Exception: cleanup, then HTTP 500
\* whose detail embeds str(e)
HandlerExcept(r) ==
    /\ req[r].pc = "synth_raised"
    /\ files' = _cleanup_file(files, NoLocks, req[r].path).fs
    /\ Set(r, [ Returned(req[r]) EXCEPT
                    !.pc = "done", !.status = 500,
                    !.detail = [ msg |-> "TTS generation failed: ",
                                 cause |-> req[r].exc, listed |-> << >> ],
                    !.ops = @ \o << "cleanup", "raise500" >> ])
    /\ UNCHANGED << sel, cl >>

FileResponse(rec) ==
    [ rec EXCEPT !.pc = "responding", !.status = 200, !.media = "audio/wav",
                 !.ops = Append(@, "return200") ]

\* background_tasks.add_task(_cleanup_file, tmpfile_path)
AddTask(rec) ==
    [ rec EXCEPT !.tasks = Append(@, rec.path), !.ops = Append(@, "schedule") ]

\* src/ai.py:141-144: if background_tasks: add_task; return FileResponse
tts_get_return(r) ==
    /\ req[r].pc = "synth_ok"
    /\ req[r].handler = "get"
    /\ Set(r, FileResponse(IF req[r].bg THEN AddTask(Returned(req[r]))
                                        ELSE Returned(req[r])))
    /\ UNCHANGED << sel, files, cl >>

\* src/ai.py:161-162: add_task; return FileResponse
tts_post_return(r) ==
    /\ req[r].pc = "synth_ok"
    /\ req[r].handler = "post"
    /\ Set(r, FileResponse(AddTask(Returned(req[r]))))
    /\ UNCHANGED << sel, files, cl >>

\* the FileResponse of src/ai.py:144 and :162 is transmitted: the file at
\* the path is read when the response is sent (None when it is gone)
Transmit(r) ==
    /\ req[r].pc = "responding"
    /\ Set(r, [ req[r] EXCEPT !.pc = "sent", !.sent = Some(files[req[r].path]),
                              !.ops = Append(@, "transmit") ])
    /\ UNCHANGED << sel, files, cl >>

RECURSIVE RunTasks(_, _)
RunTasks(fs, tasks) ==
    IF tasks = << >>
    THEN fs
    ELSE RunTasks(_cleanup_file(fs, NoLocks, Head(tasks)).fs, Tail(tasks))

\* the tasks added at src/ai.py:142 and :161 run once the response was sent
RunBackgroundTasks(r) ==
    /\ req[r].pc = "sent"
    /\ files' = RunTasks(files, req[r].tasks)
    /\ Set(r, [ req[r] EXCEPT !.pc = "done", !.tasks = << >>,
                              !.ops = @ \o [ i \in 1..Len(req[r].tasks) |-> "cleanup" ] ])
    /\ UNCHANGED << sel, cl >>

(***************************************************************************)
(* Spec: NumReq concurrent requests against the lean provider.             *)
(***************************************************************************)
Init ==
    /\ sel = NoSel
    /\ req = [ r \in 1..NumReq |-> IdleReq ]
    /\ files = NoFiles
    /\ cl = NoCl

Next ==
    \/ \E r \in Requests : tts_get(r)
    \/ \E r \in Requests : tts_post(r)
    \/ \E r \in Requests : Allocate(r)
    \/ \E r \in Requests : StreamCreate(r, LeanPayloads)
    \/ \E r \in Requests : StreamToFile(r)
    \/ \E r \in Requests : BufferedFallback(r, LeanResps)
    \/ \E r \in Requests : HandlerExcept(r)
    \/ \E r \in Requests : tts_get_return(r)
    \/ \E r \in Requests : tts_post_return(r)
    \/ \E r \in Requests : Transmit(r)
    \/ \E r \in Requests : RunBackgroundTasks(r)

Spec == Init /\ [][Next]_vars

(***************************************************************************)
(* SpecSynth: one call of _synthesize_to_wav on a resolved target and a    *)
(* freshly allocated destination, against every provider behaviour.        *)
(***************************************************************************)
SynthTargets ==
    { Resolved(ENGLISH_MODEL, DEFAULT_ENGLISH_VOICE), Resolved(ARABIC_MODEL, "Khalid-PlayAI") }

InitSynth ==
    /\ sel = NoSel
    /\ cl = NoCl
    /\ \E t \in SynthTargets, p \in Paths :
        /\ req = [ r \in { 1 } |->
                     [ IdleReq EXCEPT !.pc = "allocated", !.target = t, !.path = p,
                                      !.ops = << "allocate" >> ] ]
        /\ files = [ NoFiles EXCEPT ![p] = Some(<< >>) ]

NextSynth ==
    \/ \E r \in Requests : StreamCreate(r, RichPayloads)
    \/ \E r \in Requests : StreamToFile(r)
    \/ \E r \in Requests : BufferedFallback(r, RichResps)

SpecSynth == InitSynth /\ [][NextSynth]_vars

(***************************************************************************)
(* SpecCleanup: consecutive calls of _cleanup_file on one path of a        *)
(* directory in which each path is absent or present, deletable or not.    *)
(***************************************************************************)
Contents == { << >>, << 1 >> }

InitCleanup ==
    /\ sel = NoSel
    /\ req = << >>
    /\ files = NoFiles
    /\ \E fs \in [ Paths -> { None } \cup { Some(c) : c \in Contents } ],
          lk \in SUBSET Paths, p \in Paths :
           cl = [ fs |-> fs, locked |-> lk, path |-> p, n |-> 0,
                  raised |-> FALSE, once |-> fs ]

CleanupCall ==
    LET out == _cleanup_file(cl.fs, cl.locked, cl.path) IN
    /\ cl.n < MaxCleanups
    /\ cl' = [ cl EXCEPT !.fs = out.fs, !.n = @ + 1,
                         !.raised = @ \/ out.raised,
                         !.once = IF cl.n = 0 THEN out.fs ELSE @ ]
    /\ UNCHANGED << sel, req, files >>

SpecCleanup == InitCleanup /\ [][CleanupCall]_vars

(***************************************************************************)
(* SpecInputs: one request, through either handler, with every lang of     *)
(* LangInputs and every voice of VoiceInputs, against the lean provider.   *)
(***************************************************************************)
InitInputs ==
    /\ sel = NoSel
    /\ req = [ r \in { 1 } |-> IdleReq ]
    /\ files = NoFiles
    /\ cl = NoCl

\* GET /tts/ with any query parameters, src/ai.py:127-129
GetAnyInput(r) ==
    /\ req[r].pc = "idle"
    /\ \E l \in LangInputs, v \in VoiceInputs, b \in BOOLEAN :
        Enter(r, "get", b, l, v)

\* POST /tts/ with any body, src/ai.py:147-149
PostAnyInput(r) ==
    /\ req[r].pc = "idle"
    /\ \E l \in LangInputs, v \in VoiceInputs :
        Enter(r, "post", TRUE, l, v)

NextInputs ==
    \/ \E r \in Requests : GetAnyInput(r)
    \/ \E r \in Requests : PostAnyInput(r)
    \/ \E r \in Requests : Allocate(r)
    \/ \E r \in Requests : StreamCreate(r, LeanPayloads)
    \/ \E r \in Requests : StreamToFile(r)
    \/ \E r \in Requests : BufferedFallback(r, LeanResps)
    \/ \E r \in Requests : HandlerExcept(r)
    \/ \E r \in Requests : tts_get_return(r)
    \/ \E r \in Requests : tts_post_return(r)
    \/ \E r \in Requests : Transmit(r)
    \/ \E r \in Requests : RunBackgroundTasks(r)

SpecInputs == InitInputs /\ [][NextInputs]_vars

(***************************************************************************)
(* Properties.                                                             *)
(***************************************************************************)
Count(seq, x) == Cardinality({ i \in 1..Len(seq) : seq[i] = x })

Before(seq, a, b) == \E i, j \in 1..Len(seq) : i < j /\ seq[i] = a /\ seq[j] = b

Buffered(q) == \E i \in 1..Len(q.calls) : q.calls[i].tier = "buffered"

\* C1: once every request has completed and every scheduled task has run,
\* no temporary file allocated by a handler exists.
C1_NoLeak ==
    (\A r \in Requests : req[r].pc = "done") => \A p \in Paths : files[p] = None

\* C2: _cleanup_file is invoked exactly once per allocated path, before the
\* 500 is raised on the failure branch and after the transmission on the
\* success branch, and no FileResponse is returned without the cleanup
\* having been scheduled.
C2_ReleaseExactlyOnce ==
    \A r \in Requests :
        LET q == req[r] IN
        /\ Count(q.ops, "cleanup") <= 1
        /\ q.pc = "done" /\ q.path # NoPath => Count(q.ops, "cleanup") = 1
        /\ q.status = 500 => Before(q.ops, "cleanup", "raise500")
        /\ q.status = 200 =>
            /\ Count(q.ops, "schedule") = 1
            /\ Count(q.ops, "cleanup") = 1 => Before(q.ops, "transmit", "cleanup")

\* C3: a decided request has exactly one outcome: 400 iff the selector
\* rejects its inputs, 500 iff the selector accepted them and synthesis
\* raised, otherwise 200 with media type audio/wav; a request whose
\* synthesis raised is never answered 200, and a finished request is decided.
C3_Outcome ==
    \A r \in Requests :
        LET q == req[r]
            accepted == _validate_and_select_model_voice(q.lang, q.voice).ok IN
        /\ q.pc = "done" => q.status # 0
        /\ q.pc = "synth_raised" => q.exc # NoExc
        /\ q.status # 0 =>
            /\ q.status \in { 200, 400, 500 }
            /\ q.status = 400 <=> ~accepted
            /\ q.status = 500 <=> accepted /\ q.exc # NoExc
            /\ q.status = 200 => q.media = "audio/wav" /\ q.exc = NoExc

C3_Witness ==
    \E r1, r2 \in Requests :
        /\ req[r1].status = 500 /\ req[r1].exc.tier = "buffered"
        /\ req[r2].status = 200

\* C4: a request answered by a validation failure has allocated no file and
\* called the provider in neither tier, and the step that rejects it leaves
\* the filesystem unchanged.
C4_FailFast ==
    /\ [](\A r \in Requests :
            req[r].status = 400 =>
                /\ req[r].path = NoPath
                /\ req[r].calls = << >>
                /\ req[r].ops = << "raise400" >>)
    /\ [][\A r \in Requests :
            req[r].status = 0 /\ req'[r].status = 400 => files' = files]_vars

C4_Witness ==
    \E r1, r2 \in Requests :
        /\ req[r1].status = 400 /\ req[r1].voice = Some("Khalid-PlayAI")
        /\ req[r1].lang = Some(<< "E", "N" >>)
        /\ req[r2].pc = "synth_ok"

\* C5: the buffered call is made only after the streaming tier raised
\* AttributeError (capability absent); any other exception of the streaming
\* tier, before or after the session opened, leaves _synthesize_to_wav as
\* its exception with no buffered call made.
C5_FallbackOnlyOnAbsence ==
    \A r \in Requests :
        LET q == req[r] IN
        /\ Buffered(q) \/ q.pc = "fallback" => q.streamExc = "AttributeError"
        /\ q.streamExc \notin { "", "AttributeError" } =>
            /\ ~Buffered(q)
            /\ q.pc = "synth_raised"
            /\ q.exc = Exc(q.streamExc, "stream")

\* an error other than AttributeError raised by stream_to_file after bytes
\* reached the destination
C5_Witness ==
    \E r \in Requests :
        /\ req[r].streamExc = "APIError"
        /\ req[r].session = "closed"
        /\ files[req[r].path] # Some(<< >>)

\* C6: a request whose streaming tier raised AttributeError and whose
\* buffered response exposes the payload is answered 200, never 500; and the
\* AttributeError of the streaming tier is never the cause of an error
\* response.
C6_GracefulDegradation ==
    \A r \in Requests :
        LET q == req[r] IN
        /\ q.streamExc = "AttributeError" /\ q.exposed =>
            /\ q.pc # "synth_raised"
            /\ q.status \in { 0, 200 }
            /\ q.pc = "done" => q.status = 200
        /\ q.detail.cause # Exc("AttributeError", "stream")

C6_Witness ==
    \E r \in Requests :
        /\ req[r].pc = "done"
        /\ req[r].status = 200
        /\ req[r].streamExc = "AttributeError"
        /\ req[r].exposed

\* the payloads a buffered response exposes
Exposed(resp) ==
    { x[1] : x \in { resp.read, resp.content } \ { None } }
        \cup (IF resp.raw # None /\ resp.raw[1] # None THEN { resp.raw[1][1] } ELSE { })

\* C7: when the streaming tier raised AttributeError and the buffered call
\* returned payload P, the destination holds, when _synthesize_to_wav
\* returns, the bytes the streaming path leaves in it for P.
C7_FallbackByteIdentical ==
    \A r \in Requests :
        LET q == req[r] IN
        q.pc = "synth_ok" /\ q.streamExc = "AttributeError" =>
            \A P \in RichPayloads :
                Exposed(q.resp) = { P } =>
                    files[q.path] = Some(StreamToFileContent(<< >>, P, Len(P)))

\* the buffered payload was written over bytes the streaming tier had left
C7_Witness ==
    \E r \in Requests :
        /\ req[r].pc = "synth_ok"
        /\ req[r].streamExc = "AttributeError"
        /\ Before(req[r].ops, "stream_write", "buffered_write")
        /\ req[r].payload = Some(<< 0, 1 >>)
        /\ Exposed(req[r].resp) = { << 1, 0 >> }

(***************************************************************************)
(* The catalog as the properties of the selector state it.                 *)
(***************************************************************************)
VoicesOf(L) == IF L = AR THEN ARABIC_VOICES ELSE ENGLISH_VOICES

ModelOf(L) == IF L = AR THEN "playai-tts-arabic" ELSE "playai-tts"

DefaultOf(L) == IF L = AR THEN "Ahmad-PlayAI" ELSE "Arista-PlayAI"

\* C8: for L in {en, ar}, a voice V of L's list resolves to (model(L), V)
\* and no voice resolves to (model(L), default(L)), without error.
C8_ResolveSupported ==
    sel.out # Pending =>
        \A L \in { EN, AR } :
            sel.lang = Some(L) =>
                /\ \A V \in Range(VoicesOf(L)) :
                       sel.voice = Some(V) => sel.out = Resolved(ModelOf(L), V)
                /\ sel.voice = None => sel.out = Resolved(ModelOf(L), DefaultOf(L))

C8_Witness ==
    /\ sel.lang = Some(AR)
    /\ sel.voice = Some("Khalid-PlayAI")
    /\ sel.out = Resolved("playai-tts-arabic", "Khalid-PlayAI")

\* C9: for L in {en, ar}, every supplied voice that is not in L's list, the
\* empty string included, fails with HTTP 400 and a detail that lists
\* exactly L's voices.
C9_InvalidVoice ==
    sel.out # Pending =>
        \A L \in { EN, AR } :
            sel.lang = Some(L) /\ sel.voice # None /\ sel.voice[1] \notin Range(VoicesOf(L)) =>
                /\ ~sel.out.ok
                /\ sel.out.status = 400
                /\ sel.out.listed = VoicesOf(L)

\* C10: a non-empty language whose lower-cased form is neither en nor ar
\* fails with the invalid-language error whatever the voice; a case variant
\* of en or ar resolves as the lower-case language does; an absent or empty
\* language resolves as en does.
C10_Language ==
    sel.out # Pending =>
        /\ sel.lang # None /\ sel.lang[1] # << >> /\ Lower(sel.lang[1]) \notin { EN, AR } =>
               sel.out = HTTPException(400, "lang must be 'en' or 'ar'", << >>)
        /\ \A L \in { EN, AR } :
               sel.lang # None /\ Lower(sel.lang[1]) = L =>
                   /\ sel.out = _validate_and_select_model_voice(Some(L), sel.voice)
                   /\ sel.out.ok => sel.out.model = ModelOf(L)
                   /\ ~sel.out.ok => sel.out.listed = VoicesOf(L)
        /\ sel.lang \in { None, Some(<< >>) } =>
               /\ sel.out = _validate_and_select_model_voice(Some(EN), sel.voice)
               /\ sel.out.ok => sel.out.model = "playai-tts"

C10_Witness ==
    /\ sel.lang = Some(<< "A", "r" >>)
    /\ sel.voice = None
    /\ sel.out = Resolved("playai-tts-arabic", "Ahmad-PlayAI")

\* C11: _cleanup_file never raises, whether the file is present, already
\* removed or undeletable, and a second call on the same path leaves the
\* directory as the first call left it.
C11_CleanupIdempotent ==
    cl.n >= 1 =>
        /\ ~cl.raised
        /\ cl.fs = cl.once
        /\ \A p \in Paths \ { cl.path } : cl.fs[p] = cl.once[p]
        /\ cl.path \notin cl.locked => cl.fs[cl.path] = None

\* two calls on a path whose file cannot be deleted, next to another file
C11_Witness ==
    /\ cl.n = 2
    /\ cl.path \in cl.locked
    /\ cl.fs[cl.path] = Some(<< 1 >>)
    /\ \E p \in Paths \ { cl.path } : cl.fs[p] # None

\* the request has allocated a path and _cleanup_file has not run on it
Holding(q) == q.path # NoPath /\ Count(q.ops, "cleanup") = 0

\* C12: two requests never hold the same path at once; a step changes only
\* the file of the request that takes it; a request schedules only its own
\* path; and the file a request transmits is there, with the bytes its own
\* synthesis wrote.
C12_Isolation ==
    /\ [](\A r1, r2 \in Requests :
            r1 # r2 /\ Holding(req[r1]) /\ Holding(req[r2]) =>
                req[r1].path # req[r2].path)
    /\ [](\A r \in Requests :
            /\ \A i \in 1..Len(req[r].tasks) : req[r].tasks[i] = req[r].path
            /\ Holding(req[r]) => files[req[r].path] # None
            /\ req[r].sent # None => req[r].sent = Some(Some(<< 1 >>)))
    /\ [][\A p \in Paths :
            files'[p] # files[p] =>
                \E r \in Requests : req'[r] # req[r] /\ req'[r].path = p]_vars

\* a request about to send its file at a path that a finished request had
\* used and released
C12_Witness ==
    \E r1, r2 \in Requests :
        /\ r1 # r2
        /\ req[r1].path = req[r2].path
        /\ req[r1].pc = "done" /\ req[r1].status = 200
        /\ req[r2].pc = "responding"

\* what the provider did for the request, in both tiers (the last component
\* tells whether the streaming session started its transfer to the file)
ProviderBehaviour(q) ==
    << q.streamRes, q.streamExc, q.session, q.bufRes, q.exposed, q.exc, q.calls,
       Count(q.ops, "stream_write") >>

\* the temporary-file operations of the request, in order
FileOps(q) ==
    SelectSeq(q.ops, LAMBDA o : o \in { "allocate", "stream_write", "buffered_write",
                                        "schedule", "cleanup" })

\* C13: a finished tts_get request and a finished tts_post request with the
\* same lang and voice and the same provider behaviour have the same status,
\* detail, media type and transmitted content, and made the same
\* temporary-file operations in the same order.
C13_GetPostEquivalent ==
    \A r1, r2 \in Requests :
        LET g == req[r1]
            p == req[r2] IN
        /\ g.pc = "done" /\ p.pc = "done"
        /\ g.handler = "get" /\ p.handler = "post"
        /\ g.lang = p.lang /\ g.voice = p.voice
        /\ ProviderBehaviour(g) = ProviderBehaviour(p)
        => /\ g.status = p.status
           /\ g.detail = p.detail
           /\ g.media = p.media
           /\ g.sent = p.sent
           /\ FileOps(g) = FileOps(p)

\* C14: of a buffered response the destination receives read when present,
\* else content when present, else raw.read when present; when none is
\* present the call leaves with a RuntimeError of the buffered tier and its
\* step changes no file.
C14_ProbeOrder ==
    /\ [](\A r \in Requests :
            LET q == req[r]
                x == q.resp IN
            x.returned =>
                /\ x.read # None =>
                       q.pc = "synth_ok" /\ files[q.path] = x.read
                /\ x.read = None /\ x.content # None =>
                       q.pc = "synth_ok" /\ files[q.path] = x.content
                /\ x.read = None /\ x.content = None /\ x.raw \notin { None, NoRead } =>
                       q.pc = "synth_ok" /\ files[q.path] = x.raw[1]
                /\ x.read = None /\ x.content = None /\ x.raw \in { None, NoRead } =>
                       q.pc = "synth_raised" /\ q.exc = Exc("RuntimeError", "buffered"))
    /\ [][\A r \in Requests :
            /\ req'[r].resp.returned
            /\ ~req[r].resp.returned
            /\ req'[r].resp.read = None
            /\ req'[r].resp.content = None
            /\ req'[r].resp.raw \in { None, NoRead }
            => files' = files]_vars

\* read wins over a content and a raw stream that hold other bytes
C14_Witness ==
    \E r \in Requests :
        /\ req[r].pc = "synth_ok"
        /\ req[r].resp = Response(Some(<< 0 >>), Some(<< 1 >>), Some(Some(<< 1, 1 >>)))
        /\ files[req[r].path] = Some(<< 0 >>)

SynthOps == { "stream_call", "stream_write", "buffered_call", "buffered_write" }

DecisionOps == { "return200", "raise500" }

\* the request is inside _synthesize_to_wav
InSynthesis(q) == q.pc \in { "streaming", "fallback" }

\* C15: in a request that passed validation the allocation comes first, every
\* provider call and write of the synthesis comes after it and before the
\* decision to answer 200 or 500, the decision is taken once, and no
\* response is decided while the synthesis is in progress.
C15_Order ==
    \A r \in Requests :
        LET q == req[r] IN
        /\ q.calls # << >> \/ InSynthesis(q) => q.path # NoPath
        /\ InSynthesis(q) => files[q.path] # None
        /\ q.target.ok /\ q.ops # << >> => q.ops[1] = "allocate"
        /\ \A i, j \in 1..Len(q.ops) :
               /\ q.ops[i] \in SynthOps /\ q.ops[j] = "allocate" => j < i
               /\ q.ops[i] \in SynthOps /\ q.ops[j] \in DecisionOps => i < j
               /\ q.ops[i] \in DecisionOps /\ q.ops[j] \in DecisionOps => i = j
        /\ InSynthesis(q) \/ q.pc = "allocated" \/ q.session = "open" => q.status = 0
        /\ q.status \in { 200, 500 } =>
               \E j \in 1..Len(q.ops) : q.ops[j] \in DecisionOps

\* a 500 decided after both tiers ran on the allocated path
C15_Witness ==
    \E r \in Requests :
        /\ req[r].status = 500
        /\ req[r].ops = << "allocate", "stream_call", "stream_write", "buffered_call",
                           "cleanup", "raise500" >>

\* C16: a streaming session is open only while _synthesize_to_wav is at
\* stream_to_file: it is closed when the call has returned, when it has
\* raised, and when it has fallen through, before the buffered call is made
\* (a request has its payload from the moment its session opened).
C16_SessionClosed ==
    \A r \in Requests :
        LET q == req[r] IN
        /\ q.session = "open" => q.pc = "streaming"
        /\ q.pc \in { "fallback", "synth_ok", "synth_raised" } => q.session # "open"
        /\ Buffered(q) => q.session # "open"
        /\ q.pc \in { "fallback", "synth_ok", "synth_raised" } /\ q.payload # None =>
               q.session = "closed"

\* the buffered tier ran after a session that had been opened
C16_Witness ==
    \E r \in Requests :
        /\ req[r].pc = "synth_ok"
        /\ Buffered(req[r])
        /\ req[r].payload # None
        /\ req[r].session = "closed"

CallsOf(q, tier) == Cardinality({ i \in 1..Len(q.calls) : q.calls[i].tier = tier })

\* C17: a request makes at most one streaming call and at most one buffered
\* call, the buffered one after the streaming one; once an exception other
\* than the AttributeError of the streaming tier is in flight no provider
\* call is added, and the request finishes with HTTP 500.
C17_NoRetry ==
    /\ [](\A r \in Requests :
            LET q == req[r] IN
            /\ CallsOf(q, "stream") <= 1
            /\ CallsOf(q, "buffered") <= 1
            /\ Len(q.calls) = 2 => q.calls[1].tier = "stream"
            /\ q.exc # NoExc =>
                /\ q.pc \in { "synth_raised", "done" }
                /\ q.pc = "done" => q.status = 500)
    /\ [][\A r \in Requests :
            req[r].exc # NoExc => req'[r].calls = req[r].calls /\ req'[r].exc = req[r].exc]_vars

\* a request answered 500 after the one streaming call it made failed
C17_Witness ==
    \E r \in Requests :
        /\ req[r].pc = "done"
        /\ req[r].status = 500
        /\ req[r].exc = Exc("APIError", "stream")
        /\ Len(req[r].calls) = 1

\* (model, voice) is the model of a supported language and one of its voices
WellFormed(m, v) == \E L \in { EN, AR } : m = ModelOf(L) /\ v \in Range(VoicesOf(L))

\* C18: whatever lang and voice a request carries, every provider call made
\* for it has the model of a supported language L and a voice of L's list,
\* L being the language the request asked for (en when it asked for none).
C18_WellFormedCalls ==
    \A r \in Requests :
        LET q == req[r] IN
        \A i \in 1..Len(q.calls) :
            /\ WellFormed(q.calls[i].model, q.calls[i].voice)
            /\ NormLang(q.lang) \in { EN, AR }
            /\ q.calls[i].model = ModelOf(NormLang(q.lang))
            /\ q.calls[i].voice \in Range(VoicesOf(NormLang(q.lang)))

\* both tiers called for a request whose lang is "Ar" and whose voice is ""
C18_Witness ==
    \E r \in Requests :
        /\ req[r].lang = Some(<< "A", "r" >>)
        /\ req[r].voice = Some("")
        /\ Len(req[r].calls) = 2
        /\ req[r].calls[2] = [ tier |-> "buffered", model |-> "playai-tts-arabic",
                               voice |-> "Ahmad-PlayAI" ]

\* C19: when _synthesize_to_wav returns after a buffered call, the
\* destination holds exactly the payload the buffered response exposed,
\* whatever stream_to_file had written before the fall through: nothing, a
\* part of the streamed payload or all of it.
C19_BufferedReplaces ==
    \A r \in Requests :
        LET q == req[r] IN
        q.pc = "synth_ok" /\ Buffered(q) =>
            /\ files[q.path] # None
            /\ files[q.path][1] = ExtractData(q.resp)[1]
            /\ files[q.path][1] \in Exposed(q.resp)

\* stream_to_file wrote bytes of << 0, 1 >> before the fall through and the
\* buffered payload << 1 >>, the shorter one, is all the destination holds
C19_Witness ==
    \E r \in Requests :
        /\ req[r].pc = "synth_ok"
        /\ Buffered(req[r])
        /\ req[r].payload = Some(<< 0, 1 >>)
        /\ Before(req[r].ops, "stream_write", "buffered_write")
        /\ Exposed(req[r].resp) = { << 1 >> }
        /\ files[req[r].path] = Some(<< 1 >>)

====
